---- MODULE Spec2Model ----
(***************************************************************************)
(* Model of src/main.py: class OwonAG051, a synchronous SCPI controller    *)
(* for the OWON AG051 function generator over USB bulk endpoints.          *)
(*                                                                         *)
(* Every method is a pure operator that maps its arguments and the         *)
(* outcomes of the USB transfers it performs to a result record            *)
(*    [ops, exc, ret, out]                                                 *)
(* ops : the USB operations and sleeps performed, in program order         *)
(* exc : None, or the exception that left the method                       *)
(* ret : the returned Python value                                         *)
(* out : the argument tuples of the print calls made                       *)
(* One action per public method applies the operator and stores the result *)
(* of the call in the variable call.                                       *)
(*                                                                         *)
(* Python values: a command str is a TLA+ string; a decoded response str   *)
(* is a sequence of code points; bytes are sequences of 0..255; a number   *)
(* is [t |-> "int", v |-> n] or [t |-> "float", h |-> n] (the float n/2);  *)
(* an interpolated str argument is [t |-> "str", s |-> string].            *)
(***************************************************************************)
EXTENDS Integers, Sequences, FiniteSets, TLC

VARIABLES
    attached,   \* the (idVendor, idProduct) pairs of the devices on the bus
    state,      \* "Disconnected" until __init__ has returned, then "Connected"
    self,       \* the fields of the OwonAG051 object
    call,       \* the most recent method call and what it did
    timedOut    \* what query returned the last time its read timed out

vars == <<attached, state, self, call, timedOut>>

----------------------------------------------------------------------------
(* Bounds and input sets *)

MaxLen == 2                         \* longest device reply, in bytes

Devices == {<<21317, 4660>>, <<1, 2>>}      \* 0x5345:0x1234 and another one
Timeouts == {1000, 250}

\* 'A', ' ', '\r', the lead byte 0xC2 and the continuation byte 0xA0: C2 A0 is
\* U+00A0 (white space), a lone 0xC2 or 0xA0 is undecodable.
Bytes == {65, 32, 13, 194, 160}

Cmds == {"*IDN?", "*RST", "*RST\r"}
Shapes == {[t |-> "str", s |-> "SINE"], [t |-> "str", s |-> "SQUare"]}
Freqs == {[t |-> "int", v |-> 1000], [t |-> "float", h |-> 2000]}
Ampls == {[t |-> "float", h |-> 4], [t |-> "int", v |-> 4]}
Offsets == {[t |-> "float", h |-> 0], [t |-> "float", h |-> -1]}

RECURSIVE SeqsUpTo(_, _)
SeqsUpTo(S, n) ==
    IF n = 0 THEN {<<>>}
    ELSE LET R == SeqsUpTo(S, n - 1)
         IN R \cup {Append(r, b) : r \in {q \in R : Len(q) = n - 1}, b \in S}

----------------------------------------------------------------------------
(* Python values and control flow *)

None == [t |-> "None"]
Str(s) == [t |-> "str", s |-> s]

NoExc == "None"

Ok(ops) == [ops |-> ops, exc |-> NoExc, ret |-> None, out |-> <<>>]
Raise(ops, e) == [ops |-> ops, exc |-> e, ret |-> None, out |-> <<>>]
Return(v) == [ops |-> <<>>, exc |-> NoExc, ret |-> v, out |-> <<>>]

\* r ; s : s runs only if r raised nothing
Then(r, s) ==
    IF r.exc # NoExc THEN r
    ELSE [ops |-> r.ops \o s.ops, exc |-> s.exc, ret |-> s.ret,
          out |-> r.out \o s.out]

----------------------------------------------------------------------------
(* The USB layer as the class uses it *)

OUT_ENDPOINT == 3
IN_ENDPOINT == 129
READ_SIZE == 4096
SEND_DELAY_MS == 50
RESET_DELAY_MS == 500

WriteOutcomes == {"ok", "USBError", "USBTimeoutError"}
CfgOutcomes == {"ok", "USBError"}
ReadOutcomes ==
    {[k |-> "ok", raw |-> b] : b \in SeqsUpTo(Bytes, MaxLen)}
      \cup {[k |-> "USBTimeoutError", raw |-> <<>>],
            [k |-> "USBError", raw |-> <<>>]}

FindOp(v, p) == [op |-> "find", idVendor |-> v, idProduct |-> p]
CfgOp(res) == [op |-> "set_configuration", res |-> res]
WriteOp(ep, data, res) == [op |-> "write", ep |-> ep, data |-> data, res |-> res]
ReadOp(ep, size, tmo, ro) ==
    [op |-> "read", ep |-> ep, size |-> size, timeout |-> tmo,
     res |-> ro.k, raw |-> ro.raw]
SleepOp(ms) == [op |-> "sleep", ms |-> ms]

NoDev == <<>>
usb_core_find(v, p) == IF <<v, p>> \in attached THEN <<v, p>> ELSE NoDev

dev_set_configuration(co) ==
    IF co = "ok" THEN Ok(<<CfgOp(co)>>) ELSE Raise(<<CfgOp(co)>>, co)

dev_write(ep, data, wo) ==
    IF wo = "ok" THEN Ok(<<WriteOp(ep, data, wo)>>)
    ELSE Raise(<<WriteOp(ep, data, wo)>>, wo)

time_sleep(ms) == Ok(<<SleepOp(ms)>>)

print(args) == [ops |-> <<>>, exc |-> NoExc, ret |-> None, out |-> <<args>>]

----------------------------------------------------------------------------
(* bytes.decode("utf-8", errors="ignore") and str.strip() *)

IsCont(b) == b >= 128 /\ b <= 191

\* One- and two-byte sequences; every other byte of Bytes is an invalid start
\* byte.  An undecodable byte is dropped and decoding resumes at the next one.
RECURSIVE decode_utf8_ignore(_)
decode_utf8_ignore(b) ==
    IF b = <<>> THEN <<>>
    ELSE LET h == Head(b) IN
         IF h < 128 THEN <<h>> \o decode_utf8_ignore(Tail(b))
         ELSE IF h >= 194 /\ h <= 223 /\ Len(b) >= 2 /\ IsCont(b[2])
              THEN <<(h - 192) * 64 + (b[2] - 128)>>
                     \o decode_utf8_ignore(Tail(Tail(b)))
              ELSE decode_utf8_ignore(Tail(b))

\* str.isspace() for the code points below U+0800
isspace(c) == (c >= 9 /\ c <= 13) \/ (c >= 28 /\ c <= 32) \/ c = 133 \/ c = 160

RECURSIVE lstrip(_)
lstrip(s) == IF s # <<>> /\ isspace(Head(s)) THEN lstrip(Tail(s)) ELSE s

RECURSIVE rstrip(_)
rstrip(s) ==
    IF s # <<>> /\ isspace(s[Len(s)]) THEN rstrip(SubSeq(s, 1, Len(s) - 1))
    ELSE s

strip(s) == rstrip(lstrip(s))

----------------------------------------------------------------------------
(* f-string interpolation of a str or a number *)

Digit(d) ==
    CASE d = 0 -> "0" [] d = 1 -> "1" [] d = 2 -> "2" [] d = 3 -> "3"
      [] d = 4 -> "4" [] d = 5 -> "5" [] d = 6 -> "6" [] d = 7 -> "7"
      [] d = 8 -> "8" [] d = 9 -> "9"

RECURSIVE DecStr(_)
DecStr(n) == IF n < 10 THEN Digit(n) ELSE DecStr(n \div 10) \o Digit(n % 10)

Abs(n) == IF n < 0 THEN -n ELSE n

\* str(int), and repr(float) of a multiple of 0.5 below 1e16 in magnitude
format(x) ==
    IF x.t = "str" THEN x.s
    ELSE IF x.t = "int"
         THEN (IF x.v < 0 THEN "-" ELSE "") \o DecStr(Abs(x.v))
         ELSE (IF x.h < 0 THEN "-" ELSE "") \o DecStr(Abs(x.h) \div 2)
                \o "." \o (IF Abs(x.h) % 2 = 0 THEN "0" ELSE "5")

----------------------------------------------------------------------------
(* class OwonAG051: USB IO *)

\* Variant: the terminator is appended only to a command that lacks one.
send_unless_terminated(cmd, wo) ==
    Then(dev_write(OUT_ENDPOINT,
                   IF cmd \in {c \o "\r" : c \in Cmds} THEN cmd ELSE cmd \o "\r",
                   wo),
         time_sleep(SEND_DELAY_MS))

\* Variant: the reply to the command is drained after the settle delay.
send_drains_reply(cmd, wo) ==
    Then(dev_write(OUT_ENDPOINT, cmd \o "\r", wo),
    Then(time_sleep(SEND_DELAY_MS),
         Ok(<<ReadOp(IN_ENDPOINT, READ_SIZE, 0,
                     [k |-> "ok", raw |-> <<>>])>>)))

send(cmd, wo) ==
    Then(dev_write(OUT_ENDPOINT, cmd \o "\r", wo), time_sleep(SEND_DELAY_MS))

\* Variant: no except clause, a timed out read leaves query as an exception.
query_without_except(slf, cmd, wo, ro) ==
    Then(dev_write(OUT_ENDPOINT, cmd \o "\r", wo),
         LET rd == <<ReadOp(IN_ENDPOINT, READ_SIZE, slf.timeout, ro)>> IN
         IF ro.k = "ok"
         THEN Then(Ok(rd), Return(Str(strip(decode_utf8_ignore(ro.raw)))))
         ELSE Raise(rd, ro.k))

\* Variant: the try also covers the write, so a timed out write returns "".
query_try_covers_write(slf, cmd, wo, ro) ==
    IF wo = "USBTimeoutError"
    THEN Then(Ok(<<WriteOp(OUT_ENDPOINT, cmd \o "\r", wo)>>), Return(Str(<<>>)))
    ELSE Then(dev_write(OUT_ENDPOINT, cmd \o "\r", wo),
              LET rd == <<ReadOp(IN_ENDPOINT, READ_SIZE, slf.timeout, ro)>> IN
              IF ro.k = "ok"
              THEN Then(Ok(rd), Return(Str(strip(decode_utf8_ignore(ro.raw)))))
              ELSE IF ro.k = "USBTimeoutError"
                   THEN Then(Ok(rd), Return(Str(<<>>)))
                   ELSE Raise(rd, ro.k))

\* Variant: a timed out read is attempted a second time before giving up.
query_retries_read(slf, cmd, wo, ro) ==
    Then(dev_write(OUT_ENDPOINT, cmd \o "\r", wo),
         LET rd == <<ReadOp(IN_ENDPOINT, READ_SIZE, slf.timeout, ro)>> IN
         IF ro.k = "ok"
         THEN Then(Ok(rd), Return(Str(strip(decode_utf8_ignore(ro.raw)))))
         ELSE IF ro.k = "USBTimeoutError"
              THEN Then(Ok(rd \o rd), Return(Str(<<>>)))
              ELSE Raise(rd, ro.k))

\* Variant: a timed out read returns None instead of "".
query_none_on_timeout(slf, cmd, wo, ro) ==
    Then(dev_write(OUT_ENDPOINT, cmd \o "\r", wo),
         LET rd == <<ReadOp(IN_ENDPOINT, READ_SIZE, slf.timeout, ro)>> IN
         IF ro.k = "ok"
         THEN Then(Ok(rd), Return(Str(strip(decode_utf8_ignore(ro.raw)))))
         ELSE IF ro.k = "USBTimeoutError"
              THEN Then(Ok(rd), Return(None))
              ELSE Raise(rd, ro.k))

\* The read and the conversion of its data are inside the try; the write is not.
query(slf, cmd, wo, ro) ==
    Then(dev_write(OUT_ENDPOINT, cmd \o "\r", wo),
         LET rd == <<ReadOp(IN_ENDPOINT, READ_SIZE, slf.timeout, ro)>> IN
         IF ro.k = "ok"
         THEN Then(Ok(rd), Return(Str(strip(decode_utf8_ignore(ro.raw)))))
         ELSE IF ro.k = "USBTimeoutError"
              THEN Then(Ok(rd), Return(Str(<<>>)))
              ELSE Raise(rd, ro.k))

----------------------------------------------------------------------------
(* class OwonAG051: construction *)

DeviceNotFoundError == "ValueError"

\* The object under construction; it becomes visible only if nothing is raised.
NewSelf(v, p, t) ==
    [vendor_id |-> v, product_id |-> p, timeout |-> t, dev |-> usb_core_find(v, p)]

\* Variant: discovery is tried a second time before the error is raised.
init_retries_find(v, p, t, co, wo, ro) ==
    LET slf == NewSelf(v, p, t) IN
    Then(Ok(<<FindOp(v, p)>>),
         IF slf.dev = NoDev
         THEN Then(Ok(<<FindOp(v, p)>>), Raise(<<>>, DeviceNotFoundError))
         ELSE Then(dev_set_configuration(co),
                   LET q == query(slf, "*IDN?", wo, ro)
                   IN Then(q, print(<<"Connected:", q.ret>>))))

\* Variant: the instrument is reset as part of construction.
init_resets(v, p, t, co, wo, ro) ==
    LET slf == NewSelf(v, p, t) IN
    Then(Ok(<<FindOp(v, p)>>),
         IF slf.dev = NoDev THEN Raise(<<>>, DeviceNotFoundError)
         ELSE Then(dev_set_configuration(co),
                   LET q == query(slf, "*IDN?", wo, ro)
                   IN Then(q, Then(print(<<"Connected:", q.ret>>),
                                   send("*RST", "ok")))))

__init__(v, p, t, co, wo, ro) ==
    LET slf == NewSelf(v, p, t) IN
    Then(Ok(<<FindOp(v, p)>>),
         IF slf.dev = NoDev THEN Raise(<<>>, DeviceNotFoundError)
         ELSE Then(dev_set_configuration(co),
                   LET q == query(slf, "*IDN?", wo, ro)
                   IN Then(q, print(<<"Connected:", q.ret>>))))

----------------------------------------------------------------------------
(* class OwonAG051: SCPI commands *)

reset(wo) == Then(send("*RST", wo), time_sleep(RESET_DELAY_MS))

set_function(shape, wo) == send(":FUNCtion " \o format(shape), wo)

set_frequency(freq_hz, wo) == send(":FUNCtion:FREQuency " \o format(freq_hz), wo)

set_amplitude(amplitude_vpp, wo) ==
    send(":FUNCtion:AMPLitude " \o format(amplitude_vpp), wo)

set_offset(offset_v, wo) == send(":FUNCtion:OFFSet " \o format(offset_v), wo)

output_on(wo) == send(":CHANnel ON", wo)

output_off(wo) == send(":CHANnel OFF", wo)

\* Variant: amplitude is set before frequency.
configure_waveform_swapped(shape, freq, ampl, offset, wos) ==
    Then(set_function(shape, wos[1]),
    Then(set_amplitude(ampl, wos[2]),
    Then(set_frequency(freq, wos[3]),
         set_offset(offset, wos[4]))))

\* Variant: a failed step is followed by a reset of the instrument.
configure_waveform_rolls_back(shape, freq, ampl, offset, wos) ==
    LET r == Then(set_function(shape, wos[1]),
             Then(set_frequency(freq, wos[2]),
             Then(set_amplitude(ampl, wos[3]),
                  set_offset(offset, wos[4]))))
    IN IF r.exc = NoExc THEN r
       ELSE [r EXCEPT !.ops = r.ops \o send("*RST", "ok").ops]

\* wos[i] is the outcome of the i-th write, should the call get that far
configure_waveform(shape, freq, ampl, offset, wos) ==
    Then(set_function(shape, wos[1]),
    Then(set_frequency(freq, wos[2]),
    Then(set_amplitude(ampl, wos[3]),
         set_offset(offset, wos[4]))))

info(slf, wo, ro) ==
    LET q == query(slf, "*IDN?", wo, ro) IN Then(q, print(<<q.ret>>))

----------------------------------------------------------------------------
(* The calls a program makes on the class *)

\* Outcomes of four writes in a row; those after the first failure are never
\* consumed, so they are fixed to "ok".
WriteScripts ==
    {w \in [1..4 -> WriteOutcomes] :
        \A i \in 1..4 : w[i] # "ok" => \A j \in (i + 1)..4 : w[j] = "ok"}

\* Outcomes of a write followed by a read; the read is not reached after a
\* failed write, so its outcome is then fixed.
QueryScripts ==
    {io \in WriteOutcomes \X ReadOutcomes :
        io[1] # "ok" => io[2] = [k |-> "USBError", raw |-> <<>>]}

\* Outcomes of set_configuration, a write and a read in a row.
InitScripts ==
    {cio \in CfgOutcomes \X QueryScripts :
        cio[1] # "ok" => cio[2] = <<"ok", [k |-> "USBError", raw |-> <<>>]>>}

NoCall ==
    [fn |-> "none", args |-> <<>>, ops |-> <<>>, exc |-> NoExc, ret |-> None,
     out |-> <<>>]

CallRec(fn, args, r) ==
    [fn |-> fn, args |-> args, ops |-> r.ops, exc |-> r.exc, ret |-> r.ret,
     out |-> r.out]

Reads(ops) == SelectSeq(ops, LAMBDA o : o.op = "read")
Writes(ops) == SelectSeq(ops, LAMBDA o : o.op = "write")

\* What the query inside the call returned: its caller's return value, or the
\* last argument of the print that surfaced it.
QueryRet(c) ==
    IF c.fn = "query" THEN c.ret ELSE c.out[1][Len(c.out[1])]

\* The call reached a read and the read timed out.
TimedOut(c) ==
    LET rs == Reads(c.ops) IN rs # <<>> /\ rs[1].res = "USBTimeoutError"

\* The call reached a read that delivered bytes which decode and strip to "".
EmptyReply(c) ==
    LET rs == Reads(c.ops) IN
    rs # <<>> /\ rs[1].res = "ok" /\ strip(decode_utf8_ignore(rs[1].raw)) = <<>>

Never == [t |-> "never"]

Done(fn, args, r) ==
    /\ call' = CallRec(fn, args, r)
    /\ timedOut' = IF TimedOut(CallRec(fn, args, r)) /\ r.exc = NoExc
                   THEN QueryRet(CallRec(fn, args, r))
                   ELSE timedOut

Method(fn, args, r) ==
    /\ state = "Connected"
    /\ Done(fn, args, r)
    /\ UNCHANGED <<attached, state, self>>

NoSelf == [vendor_id |-> 0, product_id |-> 0, timeout |-> 0, dev |-> NoDev]

Init ==
    /\ attached \in {{}} \cup {{d} : d \in Devices}
    /\ state = "Disconnected"
    /\ self = NoSelf
    /\ call = NoCall
    /\ timedOut = Never

Construct ==
    \E d \in Devices, t \in Timeouts, cio \in InitScripts :
        LET r == __init__(d[1], d[2], t, cio[1], cio[2][1], cio[2][2]) IN
        /\ state = "Disconnected"
        /\ Done("__init__", <<d[1], d[2], t>>, r)
        /\ IF r.exc = NoExc
           THEN state' = "Connected" /\ self' = NewSelf(d[1], d[2], t)
           ELSE UNCHANGED <<state, self>>
        /\ UNCHANGED attached

Send ==
    \E cmd \in Cmds, wo \in WriteOutcomes : Method("send", <<cmd>>, send(cmd, wo))

Query ==
    \E cmd \in Cmds, io \in QueryScripts :
        Method("query", <<cmd>>, query(self, cmd, io[1], io[2]))

Reset == \E wo \in WriteOutcomes : Method("reset", <<>>, reset(wo))

SetFunction ==
    \E shape \in Shapes, wo \in WriteOutcomes :
        Method("set_function", <<shape>>, set_function(shape, wo))

SetFrequency ==
    \E f \in Freqs, wo \in WriteOutcomes :
        Method("set_frequency", <<f>>, set_frequency(f, wo))

SetAmplitude ==
    \E a \in Ampls, wo \in WriteOutcomes :
        Method("set_amplitude", <<a>>, set_amplitude(a, wo))

SetOffset ==
    \E o \in Offsets, wo \in WriteOutcomes :
        Method("set_offset", <<o>>, set_offset(o, wo))

OutputOn == \E wo \in WriteOutcomes : Method("output_on", <<>>, output_on(wo))

OutputOff == \E wo \in WriteOutcomes : Method("output_off", <<>>, output_off(wo))

ConfigureWaveform ==
    \E shape \in Shapes, f \in Freqs, a \in Ampls, o \in Offsets,
       wos \in WriteScripts :
        Method("configure_waveform", <<shape, f, a, o>>,
               configure_waveform(shape, f, a, o, wos))

Info ==
    \E io \in QueryScripts : Method("info", <<>>, info(self, io[1], io[2]))

Next ==
    \/ Construct
    \/ Send
    \/ Query
    \/ Reset
    \/ SetFunction
    \/ SetFrequency
    \/ SetAmplitude
    \/ SetOffset
    \/ OutputOn
    \/ OutputOff
    \/ ConfigureWaveform
    \/ Info

Spec == Init /\ [][Next]_vars

TypeOK ==
    /\ state \in {"Disconnected", "Connected"}
    /\ call.exc \in {NoExc, "USBError", "USBTimeoutError", DeviceNotFoundError}

----------------------------------------------------------------------------
(* Properties *)

FailedWrite(o) == o.op = "write" /\ o.res # "ok"
GoodWrite(data) == WriteOp(OUT_ENDPOINT, data, "ok")
Settle == SleepOp(SEND_DELAY_MS)

\* The four terminated commands configure_waveform is to write for args a
Expected(a) ==
    << ":FUNCtion " \o format(a[1]) \o "\r",
       ":FUNCtion:FREQuency " \o format(a[2]) \o "\r",
       ":FUNCtion:AMPLitude " \o format(a[3]) \o "\r",
       ":FUNCtion:OFFSet " \o format(a[4]) \o "\r" >>

SineExample ==
    << [t |-> "str", s |-> "SINE"], [t |-> "float", h |-> 2000],
       [t |-> "float", h |-> 4], [t |-> "float", h |-> 0] >>

\* C1: a configure_waveform call in which no write fails performs exactly the
\* four sends Function, Frequency, Amplitude, Offset in that order (each a
\* write of the terminated command to the OUT endpoint and a settle delay),
\* nothing else, and no read.
C1_ConfigureWaveformFourSends ==
    (/\ call.fn = "configure_waveform"
     /\ \A i \in DOMAIN call.ops : ~FailedWrite(call.ops[i]))
    => LET e == Expected(call.args) IN
       /\ call.exc = NoExc
       /\ call.ops = << GoodWrite(e[1]), Settle, GoodWrite(e[2]), Settle,
                        GoodWrite(e[3]), Settle, GoodWrite(e[4]), Settle >>
       /\ Reads(call.ops) = <<>>
       /\ call.args = SineExample
            => e = << ":FUNCtion SINE\r", ":FUNCtion:FREQuency 1000.0\r",
                      ":FUNCtion:AMPLitude 2.0\r", ":FUNCtion:OFFSet 0.0\r" >>

C1_Witness ==
    /\ call.fn = "configure_waveform"
    /\ call.exc = NoExc
    /\ call.args = SineExample
    /\ Len(Writes(call.ops)) = 4

\* C2: when the write of a query succeeds and its read times out, the query
\* returns the empty string, no exception leaves the caller (query, info or
\* __init__), and the controller is Connected with its device handle.
C2_TimeoutIsEmptyResult ==
    TimedOut(call)
    => /\ call.exc = NoExc
       /\ QueryRet(call) = Str(<<>>)
       /\ state = "Connected"
       /\ self.dev # NoDev

C2_Witness ==
    /\ call.fn = "__init__"
    /\ TimedOut(call)
    /\ state = "Connected"

\* C3: a failed write (in send or in query, a timed out write included) and a
\* read that failed with anything but a timeout leave the call as that same
\* exception, and the failed transfer is the last thing the call did.
C3_OtherErrorsPropagate ==
    \A i \in DOMAIN call.ops :
        LET o == call.ops[i] IN
        (FailedWrite(o) \/ (o.op = "read" /\ o.res = "USBError"))
        => /\ call.exc = o.res
           /\ i = Len(call.ops)
           /\ call.ret = None
           /\ call.out = <<>>

C3_Witness ==
    /\ call.fn = "query"
    /\ call.ops = <<WriteOp(OUT_ENDPOINT, "*IDN?\r", "USBTimeoutError")>>
    /\ call.exc = "USBTimeoutError"

\* C4: constructing with an id pair that matches no attached device raises
\* the not-found error after the one discovery: no set_configuration, write,
\* read or second discovery, and the controller stays Disconnected.
C4_NotFoundStopsConstruction ==
    (call.fn = "__init__" /\ <<call.args[1], call.args[2]>> \notin attached)
    => /\ call.exc = DeviceNotFoundError
       /\ call.ops = <<FindOp(call.args[1], call.args[2])>>
       /\ call.out = <<>>
       /\ state = "Disconnected"

C4_Witness ==
    /\ call.fn = "__init__"
    /\ attached # {}
    /\ <<call.args[1], call.args[2]>> \notin attached
    /\ call.exc = DeviceNotFoundError

\* C5: when the write of step N of configure_waveform fails, the call raises
\* that error; steps 1..N-1 were written in order (each followed by its settle
\* delay), step N was the last thing attempted, steps N+1..4 are not written
\* and nothing else (no rollback, no read) is issued.
C5_ConfigureWaveformAborts ==
    (call.fn = "configure_waveform" /\ call.exc # NoExc)
    => LET w == Writes(call.ops)
           n == Len(w)
           e == Expected(call.args)
       IN /\ n \in 1..4
          /\ Len(call.ops) = 2 * n - 1
          /\ \A i \in 1..n :
                /\ call.ops[2 * i - 1] =
                     WriteOp(OUT_ENDPOINT, e[i], IF i < n THEN "ok" ELSE call.exc)
                /\ i < n => call.ops[2 * i] = Settle

C5_Witness ==
    /\ call.fn = "configure_waveform"
    /\ call.exc = "USBError"
    /\ Writes(call.ops) =
         << GoodWrite(":FUNCtion SQUare\r"),
            WriteOp(OUT_ENDPOINT, ":FUNCtion:FREQuency 1000\r", "USBError") >>

\* C6: send(cmd) and query(cmd) each write one payload to the OUT endpoint,
\* cmd followed by one carriage return, whether or not cmd already ends with
\* one.
C6_OneTerminatorAppended ==
    call.fn \in {"send", "query"}
    => LET w == Writes(call.ops) IN
       /\ Len(w) = 1
       /\ w[1].ep = OUT_ENDPOINT
       /\ w[1].data = call.args[1] \o "\r"
       /\ call.args[1] = "*RST" => w[1].data = "*RST\r"
       /\ call.args[1] = "*RST\r" => w[1].data = "*RST\r\r"

C6_Witness ==
    /\ call.fn = "send"
    /\ call.args = <<"*RST\r">>
    /\ call.exc = NoExc

\* C7: a query (called directly, from info or from __init__) does one write
\* and then at most one read: exactly one read when the write succeeded, none
\* when it failed, whatever the read's outcome.
C7_QueryOneWriteOneRead ==
    call.fn \in {"query", "info", "__init__"}
    => LET w == Writes(call.ops)
           r == Reads(call.ops)
           io == SelectSeq(call.ops, LAMBDA o : o.op \in {"write", "read"})
       IN /\ Len(w) <= 1
          /\ call.fn # "__init__" => Len(w) = 1
          /\ Len(r) = (IF w # <<>> /\ w[1].res = "ok" THEN 1 ELSE 0)
          /\ io = w \o r
          /\ call.fn # "__init__" => call.ops = io

C7_Witness ==
    /\ call.fn = "query"
    /\ Len(Reads(call.ops)) = 1
    /\ call.exc = "USBError"

FireAndForget ==
    {"send", "reset", "set_function", "set_frequency", "set_amplitude",
     "set_offset", "output_on", "output_off", "configure_waveform"}

\* C8: a read happens only in a call that reaches query (query, info,
\* __init__); the fire-and-forget methods do nothing but writes and sleeps.
C8_FireAndForgetNeverReads ==
    /\ Reads(call.ops) # <<>> => call.fn \in {"query", "info", "__init__"}
    /\ call.fn \in FireAndForget
         => \A i \in DOMAIN call.ops : call.ops[i].op \in {"write", "sleep"}

C8_Witness ==
    /\ call.fn = "reset"
    /\ call.ops = <<GoodWrite("*RST\r"), Settle, SleepOp(RESET_DELAY_MS)>>

\* The response query hands back for the read operation o
ResponseOf(o) ==
    IF o.res = "ok" THEN Str(strip(decode_utf8_ignore(o.raw))) ELSE Str(<<>>)

\* The operations of a construction that found its device are a prefix of
\* find, set_configuration, write "*IDN?\r", read.
InitSequence(c) ==
    /\ Len(c.ops) \in 1..4
    /\ c.ops[1] = FindOp(c.args[1], c.args[2])
    /\ Len(c.ops) >= 2 => c.ops[2].op = "set_configuration"
    /\ Len(c.ops) >= 3 => /\ c.ops[2].res = "ok"
                          /\ c.ops[3].op = "write"
                          /\ c.ops[3].ep = OUT_ENDPOINT
                          /\ c.ops[3].data = "*IDN?\r"
    /\ Len(c.ops) = 4 => /\ c.ops[3].res = "ok"
                         /\ c.ops[4].op = "read"
                         /\ c.ops[4].ep = IN_ENDPOINT
                         /\ c.ops[4].timeout = c.args[3]

C9_Step ==
    /\ (call'.fn = "__init__" /\ <<call'.args[1], call'.args[2]>> \in attached)
         => /\ InitSequence(call')
            /\ call'.exc = NoExc
                 => /\ Len(call'.ops) = 4
                    /\ call'.out = <<<<"Connected:", ResponseOf(call'.ops[4])>>>>
    /\ state = "Disconnected"
         => /\ call'.fn = "__init__"
            /\ state' = "Connected" <=> (call'.exc = NoExc /\ Len(call'.ops) = 4)

\* C9: a construction that found its device performs, before any other call on
\* the controller, one set_configuration and then one "*IDN?" query (one
\* write, one read) whose result is printed, and nothing else; the controller
\* becomes Connected exactly when that sequence has completed.
C9_ConstructionSequence == [][C9_Step]_vars

C9_Witness ==
    /\ call.fn = "__init__"
    /\ state = "Connected"
    /\ call.out = <<<<"Connected:", Str(<<65>>)>>>>

\* C10 as claimed: the result of a query whose read timed out differs from
\* the result of a query whose read delivered bytes that decode and strip to
\* the empty string.
C10_Distinguishable ==
    (EmptyReply(call) /\ call.exc = NoExc /\ timedOut # Never)
    => QueryRet(call) # timedOut

\* C10 as amended: a query whose read timed out and a query whose read
\* delivered bytes that decode and strip to the empty string (no bytes, white
\* space only, undecodable bytes only) return the same value, the empty str.
C10_Indistinguishable ==
    (EmptyReply(call) /\ call.exc = NoExc /\ timedOut # Never)
    => /\ QueryRet(call) = timedOut
       /\ timedOut = Str(<<>>)

C10_Witness ==
    /\ call.fn = "query"
    /\ EmptyReply(call)
    /\ Reads(call.ops)[1].raw = <<160, 32>>
    /\ timedOut # Never

====
